---- MODULE Spec2Model ----
(***************************************************************************)
(* Model of src/app.py: extract_info (regular-expression field extraction), *)
(* create_overlay (two-line layout of the subcon name, font size and        *)
(* signature name) and main (extract, check, overlay, merge, download).     *)
(* Python strings are sequences of one-character strings.                   *)
(***************************************************************************)
EXTENDS Integers, Sequences, FiniteSets, TLC

VARIABLES pc, text, corrupt, srcN, subcon, receiver, words, sdn_index,
          line1_words, line2_words, line1, line2, font_size, first_name,
          overlay, existing, output, idx, buffer, download, errors

vars == <<pc, text, corrupt, srcN, subcon, receiver, words, sdn_index,
          line1_words, line2_words, line1, line2, font_size, first_name,
          overlay, existing, output, idx, buffer, download, errors>>

(* ---------------------------- bounds ----------------------------------- *)
MaxItems == 4
MaxRecvItems == 3
MaxTextChunks == 4
MaxPages == 3

(* ------------------------ program constants ---------------------------- *)
MaxLine1 == 30
MinDigits == 8
FontDefault == 60
FontSmall == 45

(* ------------------------- characters ---------------------------------- *)
LowerChars == <<"a","b","c","d","e","f","g","h","i","j","k","l","m",
                "n","o","p","q","r","s","t","u","v","w","x","y","z">>
UpperChars == <<"A","B","C","D","E","F","G","H","I","J","K","L","M",
                "N","O","P","Q","R","S","T","U","V","W","X","Y","Z">>
Digits == {"0","1","2","3","4","5","6","7","8","9"}
NL == "\n"

UpperCh(c) ==
  IF \E k \in 1..26 : LowerChars[k] = c
  THEN UpperChars[CHOOSE k \in 1..26 : LowerChars[k] = c] ELSE c

LowerCh(c) ==
  IF \E k \in 1..26 : UpperChars[k] = c
  THEN LowerChars[CHOOSE k \in 1..26 : UpperChars[k] = c] ELSE c

Upper(s) == [k \in 1..Len(s) |-> UpperCh(s[k])]
Lower(s) == [k \in 1..Len(s) |-> LowerCh(s[k])]

IsSpace(c) == c \in {" ", NL}

(* str.capitalize(): first character upper-cased, the rest lower-cased *)
Capitalize(s) ==
  [k \in 1..Len(s) |-> IF k = 1 THEN UpperCh(s[k]) ELSE LowerCh(s[k])]

(* needle in haystack *)
Contains(hay, needle) ==
  \E p \in 1..(Len(hay) - Len(needle) + 1) :
     SubSeq(hay, p, p + Len(needle) - 1) = needle

(* str.strip() *)
Strip(s) ==
  LET ns == {k \in 1..Len(s) : ~IsSpace(s[k])}
  IN IF ns = {} THEN <<>>
     ELSE SubSeq(s, CHOOSE a \in ns : \A b \in ns : a <= b,
                    CHOOSE a \in ns : \A b \in ns : a >= b)

(* str.replace('\n', ' ') *)
ReplaceNL(s) == [k \in 1..Len(s) |-> IF s[k] = NL THEN " " ELSE s[k]]

(* str.split(): maximal runs of non-whitespace characters, in order *)
RECURSIVE SplitFrom(_, _, _)
SplitFrom(s, k, cur) ==
  IF k > Len(s) THEN (IF cur = <<>> THEN <<>> ELSE <<cur>>)
  ELSE IF IsSpace(s[k])
       THEN (IF cur = <<>> THEN <<>> ELSE <<cur>>) \o SplitFrom(s, k + 1, <<>>)
       ELSE SplitFrom(s, k + 1, Append(cur, s[k]))

Split(s) == SplitFrom(s, 1, <<>>)

(* " ".join(ws) *)
RECURSIVE Join(_)
Join(ws) ==
  IF ws = <<>> THEN <<>>
  ELSE IF Len(ws) = 1 THEN ws[1]
  ELSE ws[1] \o <<" ">> \o Join(Tail(ws))

RECURSIVE Concat(_)
Concat(ss) == IF ss = <<>> THEN <<>> ELSE ss[1] \o Concat(Tail(ss))

(* ------------------------- literals ------------------------------------ *)
Unknown == <<"U","n","k","n","o","w","n">>
None == <<"None">>
SDN == <<"S","D","N">>
UNIVERSAL_CELLULAR ==
  <<"U","N","I","V","E","R","S","A","L"," ","C","E","L","L","U","L","A","R">>

(* Python truthiness of a str-or-None value *)
Truthy(v) == v # None /\ v # <<>>

(* ------------------ create_overlay: subcon layout ---------------------- *)
(* index (0-based) of the first word whose upper-cased form contains "SDN" *)
SdnIndex(ws) ==
  LET hits == {k \in 1..Len(ws) : Contains(Upper(ws[k]), SDN)}
  IN IF hits = {} THEN -1
     ELSE (CHOOSE a \in hits : \A b \in hits : a <= b) - 1

(* variant: the loop may pop the only word of line1 *)
LoopCond_AllowEmpty(l1) == Len(Join(l1)) > MaxLine1 /\ Len(l1) > 0

LoopCond(l1) == Len(Join(l1)) > MaxLine1 /\ Len(l1) > 1

(* line2_words.insert(0, line1_words.pop()) *)
PopLine1(l1) == SubSeq(l1, 1, Len(l1) - 1)

(* variant: the popped word is appended to line2 instead of inserted at 0 *)
PushLine2_AtEnd(l1, l2) == Append(l2, l1[Len(l1)])

PushLine2(l1, l2) == <<l1[Len(l1)]>> \o l2

(* variant: split point one word too far *)
MidIndex_OneMore(n) == (n \div 2) + 2

MidIndex(n) == (n \div 2) + 1

(* variant: the brand name is looked up without upper-casing subcon *)
FontSize_CaseSensitive(sc, l1) ==
  IF Contains(sc, UNIVERSAL_CELLULAR) \/ Len(l1) > MaxLine1
  THEN FontSmall ELSE FontDefault

FontSize(sc, l1) ==
  IF Contains(Upper(sc), UNIVERSAL_CELLULAR) \/ Len(l1) > MaxLine1
  THEN FontSmall ELSE FontDefault

(* receiver.split()[0] raises IndexError: receiver is truthy and has no token *)
SigRaises(r) == r # <<>> /\ Split(r) = <<>>

(* receiver.split()[0] if receiver else "" *)
FirstToken(r) == IF r # <<>> THEN Split(r)[1] ELSE <<>>

(* ------------------------- inputs -------------------------------------- *)
wAB == <<"A","B">>
wSdn == <<"S","d","n">>
wUNIVERSAL == <<"U","N","I","V","E","R","S","A","L">>
wCellular == <<"C","e","l","l","u","l","a","r">>
wLong == <<"T","E","L","E","C","O","M","M","U","N","I","C","A","T","I","O","N">>

SubconItems ==
  {w \o s : w \in {<<>>, wAB, wSdn, wUNIVERSAL, wCellular, wLong},
            s \in {<<>>, <<" ">>}} \ {<<>>}

SubconInputs ==
  {Concat(q) : q \in UNION {[1..n -> SubconItems] : n \in 0..MaxItems}}

wJOHN == <<"J","O","H","N">>
wsmith == <<"s","m","i","t","h">>
RecvItems == {wJOHN, wsmith, <<" ">>, <<NL>>}

ReceiverInputs ==
  {Concat(q) : q \in UNION {[1..n -> RecvItems] : n \in 0..MaxRecvItems}}

(* ------------------- create_overlay, step by step ---------------------- *)
Frame == <<text, corrupt, srcN, existing, output, idx, buffer, download, errors>>

CO_Split ==
  /\ pc = "split"
  /\ words' = Split(subcon)
  /\ sdn_index' = SdnIndex(Split(subcon))
  /\ pc' = "layout"
  /\ UNCHANGED <<subcon, receiver, line1_words, line2_words, line1, line2,
                 font_size, first_name, overlay, Frame>>

CO_SdnSplit ==
  /\ pc = "layout"
  /\ sdn_index # -1
  /\ line1_words' = SubSeq(words, 1, sdn_index)
  /\ line2_words' = SubSeq(words, sdn_index + 1, Len(words))
  /\ pc' = "loop"
  /\ UNCHANGED <<subcon, receiver, words, sdn_index, line1, line2,
                 font_size, first_name, overlay, Frame>>

CO_LoopStep ==
  /\ pc = "loop"
  /\ LoopCond(line1_words)
  /\ line2_words' = PushLine2(line1_words, line2_words)
  /\ line1_words' = PopLine1(line1_words)
  /\ UNCHANGED <<pc, subcon, receiver, words, sdn_index, line1, line2,
                 font_size, first_name, overlay, Frame>>

CO_LoopExit ==
  /\ pc = "loop"
  /\ ~LoopCond(line1_words)
  /\ line1' = Join(line1_words)
  /\ line2' = Join(line2_words)
  /\ pc' = "font"
  /\ UNCHANGED <<subcon, receiver, words, sdn_index, line1_words, line2_words,
                 font_size, first_name, overlay, Frame>>

CO_MidSplit ==
  /\ pc = "layout"
  /\ sdn_index = -1
  /\ Len(words) > 2
  /\ line1' = Join(SubSeq(words, 1, MidIndex(Len(words))))
  /\ line2' = Join(SubSeq(words, MidIndex(Len(words)) + 1, Len(words)))
  /\ pc' = "font"
  /\ UNCHANGED <<subcon, receiver, words, sdn_index, line1_words, line2_words,
                 font_size, first_name, overlay, Frame>>

CO_Single ==
  /\ pc = "layout"
  /\ sdn_index = -1
  /\ ~(Len(words) > 2)
  /\ line1' = subcon
  /\ line2' = <<>>
  /\ pc' = "font"
  /\ UNCHANGED <<subcon, receiver, words, sdn_index, line1_words, line2_words,
                 font_size, first_name, overlay, Frame>>

CO_Font ==
  /\ pc = "font"
  /\ font_size' = FontSize(subcon, line1)
  /\ pc' = "sig"
  /\ UNCHANGED <<subcon, receiver, words, sdn_index, line1_words, line2_words,
                 line1, line2, first_name, overlay, Frame>>

CO_Sig ==
  /\ pc = "sig"
  /\ IF SigRaises(receiver)
     THEN pc' = "index_error" /\ UNCHANGED first_name
     ELSE pc' = "drawn" /\ first_name' = Capitalize(FirstToken(receiver))
  /\ UNCHANGED <<subcon, receiver, words, sdn_index, line1_words, line2_words,
                 line1, line2, font_size, overlay, Frame>>

CO_Save ==
  /\ pc = "drawn"
  /\ overlay' = [line1 |-> line1, line2 |-> line2, font_size |-> font_size,
                 first_name |-> first_name]
  /\ pc' = "returned"
  /\ UNCHANGED <<subcon, receiver, words, sdn_index, line1_words, line2_words,
                 line1, line2, font_size, first_name, Frame>>

CreateOverlay ==
  \/ CO_Split \/ CO_SdnSplit \/ CO_LoopStep \/ CO_LoopExit \/ CO_MidSplit
  \/ CO_Single \/ CO_Font \/ CO_Sig \/ CO_Save

NoOverlay == [line1 |-> <<>>, line2 |-> <<>>, font_size |-> 0, first_name |-> <<>>]

LocalsInit ==
  /\ words = <<>> /\ sdn_index = -1
  /\ line1_words = <<>> /\ line2_words = <<>>
  /\ line1 = <<>> /\ line2 = <<>>
  /\ font_size = 0 /\ first_name = <<>>
  /\ overlay = NoOverlay
  /\ existing = <<>> /\ output = <<>> /\ idx = 0
  /\ buffer = <<>> /\ download = <<>> /\ errors = {}

(* create_overlay called directly with any subcon / receiver *)
InitOverlay ==
  /\ pc = "split"
  /\ text = <<>> /\ corrupt = FALSE /\ srcN = 1
  /\ \/ subcon \in SubconInputs /\ receiver = Unknown
     \/ subcon = Unknown /\ receiver \in ReceiverInputs
  /\ LocalsInit

NextOverlay == CreateOverlay

(* ------------------ extract_info: the two regular expressions ---------- *)
lSubon == <<"S","u","b","o","n">>
lSubcon == <<"S","u","b","c","o","n">>
lColon == <<":">>
lSiteReceiver == <<"S","i","t","e"," ","R","e","c","e","i","v","e","r",":">>

(* literal lit matches t at position p under re.IGNORECASE *)
LitAt(t, p, lit) ==
  /\ p >= 1
  /\ p + Len(lit) - 1 <= Len(t)
  /\ \A k \in 1..Len(lit) : LowerCh(t[p + k - 1]) = LowerCh(lit[k])

(* (?:Subon|Subcon): at position s; the position after the colon, or 0 *)
SubconLabelEnd(t, s) ==
  IF LitAt(t, s, lSubon) /\ LitAt(t, s + Len(lSubon), lColon)
    THEN s + Len(lSubon) + 1
  ELSE IF LitAt(t, s, lSubcon) /\ LitAt(t, s + Len(lSubcon), lColon)
    THEN s + Len(lSubcon) + 1
  ELSE 0

(* Site Receiver: at position s; the position after the colon, or 0 *)
SiteLabelEnd(t, s) ==
  IF LitAt(t, s, lSiteReceiver) THEN s + Len(lSiteReceiver) ELSE 0

(* length of the whitespace run of t starting at position a (greedy \s* ) *)
RECURSIVE WsRun(_, _)
WsRun(t, a) ==
  IF a <= Len(t) /\ IsSpace(t[a]) THEN 1 + WsRun(t, a + 1) ELSE 0

(* variant: '.' matches line breaks in both patterns *)
DotRun_AlwaysDotAll(t, c, d, dotall) == TRUE

(* '.' matches every character of t[c..d-1]: any character under DOTALL,   *)
(* any character but a line break otherwise                                *)
DotRun(t, c, d, dotall) == dotall \/ \A k \in c..(d - 1) : t[k] # NL

(* (?:/|\d{8,}) at position d *)
TermAt(t, d) ==
  \/ d <= Len(t) /\ t[d] = "/"
  \/ d + MinDigits - 1 <= Len(t) /\ \A k \in 0..(MinDigits - 1) : t[d + k] \in Digits

(* \s*Site Receiver: at position d *)
SubconTailAt(t, d) == \E h \in 0..WsRun(t, d) : LitAt(t, d + h, lSiteReceiver)

(* The backtracking search for  \s*(.*?)TAIL  from position a: \s* greedy  *)
(* (longest first), .*? lazy (shortest first).  Candidates <<g, d>>: g     *)
(* characters of whitespace, then group 1 = t[a+g .. d-1].                 *)
SubconCands(t, a) ==
  {x \in (0..WsRun(t, a)) \X (a..(Len(t) + 1)) :
      /\ x[2] >= a + x[1]
      /\ DotRun(t, a + x[1], x[2], TRUE)
      /\ SubconTailAt(t, x[2])}

ReceiverCands(t, a) ==
  {x \in (0..WsRun(t, a)) \X (a..(Len(t) + 1)) :
      /\ x[2] >= a + x[1]
      /\ DotRun(t, a + x[1], x[2], FALSE)
      /\ TermAt(t, x[2])}

(* the candidate the matcher tries first *)
FirstCand(C) ==
  CHOOSE x \in C : \A y \in C : x[1] > y[1] \/ (x[1] = y[1] /\ x[2] <= y[2])

Group1(t, a, C) == SubSeq(t, a + FirstCand(C)[1], FirstCand(C)[2] - 1)

Min(S) == CHOOSE a \in S : \A b \in S : a <= b

(* re.search: the leftmost start position at which the pattern matches *)
SubconStarts(t) ==
  {s \in 1..Len(t) : SubconLabelEnd(t, s) # 0
                     /\ SubconCands(t, SubconLabelEnd(t, s)) # {}}
ReceiverStarts(t) ==
  {s \in 1..Len(t) : SiteLabelEnd(t, s) # 0
                     /\ ReceiverCands(t, SiteLabelEnd(t, s)) # {}}

NoMatch == Unknown

ExtractSubcon(t) ==
  IF SubconStarts(t) = {} THEN NoMatch
  ELSE LET a == SubconLabelEnd(t, Min(SubconStarts(t)))
       IN ReplaceNL(Strip(Group1(t, a, SubconCands(t, a))))

ExtractReceiver(t) ==
  IF ReceiverStarts(t) = {} THEN NoMatch
  ELSE LET a == SiteLabelEnd(t, Min(ReceiverStarts(t)))
       IN Strip(Group1(t, a, ReceiverCands(t, a)))

(* variant: the except branch returns the sentinels *)
ExtractFailure_Sentinel == <<Unknown, Unknown>>

(* except Exception: ... return None, None *)
ExtractFailure == <<None, None>>

(* PdfReader(pdf_file) / reader.pages[0] raise *)
ReadRaises == corrupt \/ srcN = 0

(* variant: one field is enough *)
CheckPasses_Either(sc, rc) == Truthy(sc) \/ Truthy(rc)

(* if subcon and receiver *)
CheckPasses(sc, rc) == Truthy(sc) /\ Truthy(rc)

(* ---------------------------- page texts ------------------------------- *)
cSubcon == lSubcon \o lColon
cSUBON == Upper(lSubon) \o lColon
cSiteLower == Lower(lSiteReceiver)
wJo == <<"J","o">>
d1234 == <<"1","2","3","4">>

TextChunks == {cSubcon, cSUBON, cSiteLower, wJo, <<" ">>, <<NL>>, <<"/">>, d1234}

Scenario1 ==
  Concat(<<cSubcon, <<" ","A","B","C"," ">>, SDN, <<" ","B","H","D"," ">>,
           lSiteReceiver, <<" ","J","a","n","e"," ","D","o","e"," ">>,
           d1234, <<"5","6","7","8","/","9","0">> >>)

Scenario2 ==
  Concat(<<wAB, <<NL>>, lSiteReceiver, <<" ">>, wJOHN, <<" ">>, wsmith, <<"/">> >>)

Scenario3 ==
  Concat(<<cSUBON, <<NL>>, UNIVERSAL_CELLULAR, <<NL>>, wLong, <<" ">>, wSdn,
           <<" ","B","H","D",NL>>, lSiteReceiver, <<NL>>, wJOHN, <<" ">>,
           wsmith, <<" ">>, d1234, d1234, d1234 >>)

ScenarioEmpty == Concat(<<cSubcon, <<" ">>, lSiteReceiver, <<" ","/">> >>)

ScenarioThreeWords ==
  Concat(<<cSubcon, wAB, <<" ">>, wJo, <<NL>>, wLong, <<" ">>, lSiteReceiver,
           wJo, <<"/">> >>)

ScenarioTwoLabels ==
  Concat(<<cSubcon, <<" ">>, wAB, <<NL>>, wJo, <<" ">>, lSiteReceiver, <<" ">>,
           wJo, <<NL>>, cSiteLower, <<NL>>, wJOHN, <<" ">>, wsmith, <<"/">> >>)

ScenarioTexts ==
  {Scenario1, Scenario2, Scenario3, ScenarioEmpty, ScenarioThreeWords,
   ScenarioTwoLabels}

TextInputs ==
  {Concat(q) : q \in UNION {[1..n -> TextChunks] : n \in 0..MaxTextChunks}}
    \cup ScenarioTexts

(* --------------------------- main, step by step ------------------------ *)
Locals == <<words, sdn_index, line1_words, line2_words, line1, line2,
            font_size, first_name, overlay>>

(* lines 126-127: subcon, receiver = extract_info(uploaded_file) *)
M_Extract ==
  /\ pc = "extract"
  /\ IF ReadRaises
     THEN /\ errors' = errors \cup {"Error extracting info"}
          /\ subcon' = ExtractFailure[1]
          /\ receiver' = ExtractFailure[2]
     ELSE /\ subcon' = ExtractSubcon(text)
          /\ receiver' = ExtractReceiver(text)
          /\ UNCHANGED errors
  /\ pc' = "check"
  /\ UNCHANGED <<text, corrupt, srcN, Locals, existing, output, idx, buffer,
                 download>>

(* lines 129-134, 170-171 *)
M_Check ==
  /\ pc = "check"
  /\ IF CheckPasses(subcon, receiver)
     THEN pc' = "split" /\ UNCHANGED errors
     ELSE /\ pc' = "rejected"
          /\ errors' = errors \cup {"Could not extract Subcon or Receiver information"}
  /\ UNCHANGED <<text, corrupt, srcN, subcon, receiver, Locals, existing,
                 output, idx, buffer, download>>

InitExtract ==
  /\ pc = "extract"
  /\ \/ corrupt = FALSE /\ text \in TextInputs
     \/ corrupt = TRUE /\ text = <<>>
  /\ srcN = 1
  /\ subcon = <<>> /\ receiver = <<>>
  /\ LocalsInit

NextExtract == M_Extract \/ M_Check

SpecExtract == InitExtract /\ [][NextExtract]_vars

(* ----------------------- main: merge and download ---------------------- *)
(* PdfReader(uploaded_file).pages of the source document *)
SourcePages(n) == [k \in 1..n |-> [src |-> k - 1, over |-> NoOverlay]]

(* page.merge_page(new_pdf.pages[0]) *)
MergePage(page, ov) == [page EXCEPT !.over = ov]

(* variant: range(0, len(existing_pdf.pages)) *)
RestRange_FromZero(n) == [k \in 1..n |-> k - 1]

(* range(1, len(existing_pdf.pages)) *)
RestRange(n) == [k \in 1..(n - 1) |-> k]

(* lines 137-145 *)
M_MergeFirst ==
  /\ pc = "returned"
  /\ IF ReadRaises
     THEN pc' = "crashed" /\ UNCHANGED <<existing, output, idx>>
     ELSE /\ existing' = [SourcePages(srcN) EXCEPT
                            ![1] = MergePage(SourcePages(srcN)[1], overlay)]
          /\ output' = <<MergePage(SourcePages(srcN)[1], overlay)>>
          /\ idx' = 1
          /\ pc' = "add"
  /\ UNCHANGED <<text, corrupt, srcN, subcon, receiver, Locals, buffer,
                 download, errors>>

(* lines 148-149, one iteration *)
M_AddPage ==
  /\ pc = "add"
  /\ idx <= Len(RestRange(srcN))
  /\ output' = Append(output, existing[RestRange(srcN)[idx] + 1])
  /\ idx' = idx + 1
  /\ UNCHANGED <<pc, text, corrupt, srcN, subcon, receiver, Locals, existing,
                 buffer, download, errors>>

(* lines 152-161 *)
M_Write ==
  /\ pc = "add"
  /\ idx > Len(RestRange(srcN))
  /\ buffer' = output
  /\ pc' = "download"
  /\ UNCHANGED <<text, corrupt, srcN, subcon, receiver, Locals, existing,
                 output, idx, download, errors>>

(* lines 164-169 *)
M_Download ==
  /\ pc = "download"
  /\ download' = buffer
  /\ pc' = "offered"
  /\ UNCHANGED <<text, corrupt, srcN, subcon, receiver, Locals, existing,
                 output, idx, buffer, errors>>

(* merge_page / add_page / write raise: nothing in main catches it *)
M_Raise ==
  /\ pc \in {"returned", "add"}
  /\ pc' = "crashed"
  /\ UNCHANGED <<text, corrupt, srcN, subcon, receiver, Locals, existing,
                 output, idx, buffer, download, errors>>

MainTexts ==
  ScenarioTexts \cup
  {Concat(<<a, b, c, cSiteLower, d, e>>) :
      a \in {cSubcon, wJo}, b \in {<<>>, <<NL>>}, c \in {<<>>, wJo, wSdn},
      d \in {<<>>, wJo}, e \in {<<>>, <<"/">>}}

Init ==
  /\ pc = "extract"
  /\ \/ corrupt = FALSE /\ text \in MainTexts
     \/ corrupt = TRUE /\ text = <<>>
  /\ srcN \in 0..MaxPages
  /\ subcon = <<>> /\ receiver = <<>>
  /\ LocalsInit

Next ==
  \/ M_Extract \/ M_Check
  \/ CO_Split \/ CO_SdnSplit \/ CO_LoopStep \/ CO_LoopExit \/ CO_MidSplit
  \/ CO_Single \/ CO_Font \/ CO_Sig \/ CO_Save
  \/ M_MergeFirst \/ M_AddPage \/ M_Write \/ M_Download \/ M_Raise

Spec == Init /\ [][Next]_vars

(* ==================== properties of extract_info and main ============== *)
Extracted == pc \in {"check", "split", "rejected"} /\ ~ReadRaises

(* positions just after a "Subon:" / "Subcon:" label, any letter case *)
SubLabelEnds(t) ==
  {e \in 1..(Len(t) + 1) :
     \/ LitAt(t, e - 6, lSubon \o lColon)
     \/ LitAt(t, e - 7, lSubcon \o lColon)}
SiteStarts(t) == {q \in 1..Len(t) : LitAt(t, q, lSiteReceiver)}
SiteEnds(t) == {q + Len(lSiteReceiver) : q \in SiteStarts(t)}
DigitRunAt(t, p) ==
  p + 7 <= Len(t) /\ \A k \in p..(p + 7) : t[k] \in Digits
Terms(t) == {p \in 1..Len(t) : t[p] = "/" \/ DigitRunAt(t, p)}

(* the text between the leftmost label that has a "Site Receiver:" after   *)
(* it and the first such "Site Receiver:"                                  *)
SubconSpan(t) ==
  LET ok == {e \in SubLabelEnds(t) : \E q \in SiteStarts(t) : q >= e}
  IN IF ok = {} THEN None
     ELSE SubSeq(t, Min(ok), Min({q \in SiteStarts(t) : q >= Min(ok)}) - 1)

RefSubcon(t) ==
  IF SubconSpan(t) = None THEN Unknown ELSE ReplaceNL(Strip(SubconSpan(t)))

(* the text between a "Site Receiver:" label ending at e and the first     *)
(* "/" or run of 8 digits after it                                         *)
RunFrom(t, e) == SubSeq(t, e, Min({p \in Terms(t) : p >= e}) - 1)
LStrip(s) == SubSeq(s, 1 + WsRun(s, 1), Len(s))
HasNL(s) == \E k \in 1..Len(s) : s[k] = NL

ReceiverSpanAny(t) ==
  LET ok == {e \in SiteEnds(t) : \E p \in Terms(t) : p >= e}
  IN IF ok = {} THEN None ELSE RunFrom(t, Min(ok))

ReceiverSpanLine(t) ==
  LET ok == {e \in SiteEnds(t) :
               /\ \E p \in Terms(t) : p >= e
               /\ ~HasNL(LStrip(RunFrom(t, e)))}
  IN IF ok = {} THEN None ELSE RunFrom(t, Min(ok))

sABC_SDN_BHD == <<"A","B","C"," ","S","D","N"," ","B","H","D">>
sJane_Doe == <<"J","a","n","e"," ","D","o","e">>

(* C3 (as claimed): when extraction does not raise, neither field is ever  *)
(* empty or falsy, so the check in main always passes.                     *)
C3_NeverFalsy ==
  Extracted => /\ Truthy(subcon) /\ Truthy(receiver)
               /\ pc # "rejected"

(* C3 (amended): when extraction does not raise, each field is "Unknown"   *)
(* when its pattern has no match and otherwise the trimmed matched value,  *)
(* which is empty exactly when only whitespace lies between the label and  *)
(* its terminator; the check in main passes exactly when both fields are   *)
(* non-empty, so a pattern that merely fails to match never blocks it.     *)
C3_FalsyOnlyWhenBlank ==
  Extracted =>
    /\ subcon # None /\ receiver # None
    /\ SubconSpan(text) = None => subcon = Unknown
    /\ ReceiverSpanLine(text) = None => receiver = Unknown
    /\ subcon = <<>> <=>
         (SubconSpan(text) # None /\ \A k \in DOMAIN SubconSpan(text) :
                                        IsSpace(SubconSpan(text)[k]))
    /\ receiver = <<>> <=>
         (ReceiverSpanLine(text) # None
            /\ \A k \in DOMAIN ReceiverSpanLine(text) :
                  IsSpace(ReceiverSpanLine(text)[k]))
    /\ pc = "split" => (subcon # <<>> /\ receiver # <<>>)
    /\ pc = "rejected" => (subcon = <<>> \/ receiver = <<>>)

C3_Witness ==
  /\ pc = "rejected" /\ ~ReadRaises
  /\ subcon = Unknown /\ receiver = <<>>

(* C4 (as claimed): subcon is the run between the label and the following  *)
(* "Site Receiver:", trimmed, line breaks replaced by spaces; receiver is  *)
(* the run of characters between "Site Receiver:" and the first "/" or run *)
(* of 8 digits, trimmed; a field without a match is "Unknown".             *)
C4_Fields ==
  Extracted =>
    /\ subcon = RefSubcon(text)
    /\ receiver = IF ReceiverSpanAny(text) = None THEN Unknown
                  ELSE Strip(ReceiverSpanAny(text))
    /\ text = Scenario1 => (subcon = sABC_SDN_BHD /\ receiver = sJane_Doe)

(* C4 (amended): as claimed, except that the receiver run, after its       *)
(* leading whitespace, contains no line break: the receiver is taken from  *)
(* the leftmost "Site Receiver:" label whose run up to the first "/" or    *)
(* run of 8 digits has none, and is "Unknown" when there is no such label. *)
C4_FieldsOneLine ==
  Extracted =>
    /\ subcon = RefSubcon(text)
    /\ receiver = IF ReceiverSpanLine(text) = None THEN Unknown
                  ELSE Strip(ReceiverSpanLine(text))
    /\ text = Scenario1 => (subcon = sABC_SDN_BHD /\ receiver = sJane_Doe)

C4_Witness ==
  /\ pc = "check" /\ ~ReadRaises
  /\ HasNL(SubconSpan(text)) /\ subcon # Unknown /\ subcon # <<>>
  /\ ReceiverSpanAny(text) # None /\ ReceiverSpanLine(text) # None
  /\ ReceiverSpanAny(text) # ReceiverSpanLine(text)
  /\ receiver # <<>>

(* C7: a request either ends with the fully merged document offered for    *)
(* download or offers nothing: when extraction raises, the failure is      *)
(* reported and neither create_overlay nor the merge runs; the download is *)
(* offered only after the overlay was created, merged onto page 1, all     *)
(* remaining pages added and the output written.                           *)
C7_AllOrNothing ==
  /\ (ReadRaises /\ pc # "extract") =>
        /\ "Error extracting info" \in errors
        /\ pc \in {"check", "rejected"}
        /\ overlay = NoOverlay /\ output = <<>> /\ download = <<>>
  /\ pc # "offered" => download = <<>>
  /\ pc = "offered" =>
        /\ overlay # NoOverlay
        /\ Len(download) = srcN
        /\ download[1].over = overlay
        /\ download = buffer /\ buffer = output

C7_Witness ==
  /\ pc = "rejected" /\ ReadRaises /\ srcN = 2
  /\ "Error extracting info" \in errors

(* C8: for a source of N >= 1 pages the output has exactly N pages in the  *)
(* original order: page 0 is source page 0 with the overlay merged on top, *)
(* every page i in 1..N-1 is source page i unchanged.                      *)
C8_PagesPreserved ==
  (pc \in {"download", "offered"} /\ srcN >= 1) =>
    /\ Len(buffer) = srcN
    /\ buffer[1] = [src |-> 0, over |-> overlay] /\ overlay # NoOverlay
    /\ \A k \in 2..srcN : buffer[k] = [src |-> k - 1, over |-> NoOverlay]

C8_Witness ==
  /\ pc = "offered" /\ srcN = MaxPages /\ Len(download) = MaxPages

(* ======================= properties of create_overlay ================== *)
LaidOut == pc \in {"font", "sig", "drawn", "index_error", "returned"}
HasSdn(s) == Contains(Upper(s), SDN)
Max(S) == CHOOSE a \in S : \A b \in S : a >= b

(* C1: when some word of subcon contains "SDN" (any case), the words of    *)
(* line1 followed by the words of line2 are exactly the words of subcon,   *)
(* in order, however many words the rebalancing loop moved.                *)
C1_WordsPreserved ==
  (LaidOut /\ HasSdn(subcon)) => Split(line1) \o Split(line2) = Split(subcon)

C1_Witness ==
  /\ pc = "font" /\ HasSdn(subcon)
  /\ sdn_index - Len(line1_words) >= 2

(* C2: line1 is non-empty unless subcon itself is empty.                   *)
C2_Line1NonEmpty == LaidOut => (line1 = <<>> => subcon = <<>>)

(* C5: line2 is empty iff subcon has at most 2 words and no word with      *)
(* "SDN"; then line1 is subcon unchanged; otherwise line2 is non-empty.    *)
C5_Line2Empty ==
  LaidOut =>
    /\ (line2 = <<>>) <=> (Len(Split(subcon)) <= 2 /\ ~HasSdn(subcon))
    /\ (line2 = <<>>) => line1 = subcon

C5_Witness ==
  /\ pc = "font" /\ line2 = <<>> /\ Len(Split(subcon)) = 2
  /\ line1 = subcon /\ Len(subcon) > Len(Join(Split(subcon)))

(* C6: the font size is 4.5 exactly when subcon contains "UNIVERSAL        *)
(* CELLULAR" in any letter case or the final line1 is longer than 30       *)
(* characters, and 6 otherwise (sizes in tenths of a point).               *)
C6_FontSize ==
  pc \in {"sig", "drawn", "index_error", "returned"} =>
    font_size = IF \/ Contains(Lower(subcon), Lower(UNIVERSAL_CELLULAR))
                   \/ Len(line1) >= 31
                THEN 45 ELSE 60

C6_Witness ==
  /\ pc = "sig" /\ font_size = 45 /\ Len(line1) <= 30
  /\ ~Contains(subcon, UNIVERSAL_CELLULAR)

(* C9: the signature name is the first token of receiver, first letter     *)
(* upper-cased and the rest lower-cased, and is empty, without any error,  *)
(* when receiver has no tokens.                                            *)
C9_Signature ==
  pc \in {"drawn", "index_error", "returned"} =>
    /\ pc # "index_error"
    /\ first_name = IF Split(receiver) = <<>> THEN <<>>
                    ELSE Capitalize(Split(receiver)[1])

(* C10: the rebalancing loop starts from words[0..i) / words[i..end), each *)
(* step moves only the last word of line1 to the front of line2, and it    *)
(* stops in the first state where line1 joined has at most 30 characters   *)
(* or at most one word: line1 is then the longest prefix of words[0..i)    *)
(* of at most 30 characters, or the single first word if there is none.    *)
Prefix(k) == SubSeq(words, 1, k)
Fits == {k \in 1..sdn_index : Len(Join(Prefix(k))) <= 30}
LongestFit ==
  IF sdn_index <= 0 THEN <<>>
  ELSE IF Fits # {} THEN Prefix(Max(Fits)) ELSE Prefix(1)

C10_LoopState ==
  /\ pc = "loop" =>
       /\ line1_words \o line2_words = words
       /\ Len(line1_words) <= sdn_index
       /\ \A k \in (Len(line1_words) + 1)..sdn_index :
             Len(Join(Prefix(k))) > 30 /\ k > 1
  /\ (LaidOut /\ sdn_index # -1) =>
       /\ line1_words = LongestFit
       /\ line1 = Join(LongestFit)

C10_LoopStep ==
  /\ (pc = "layout" /\ pc' = "loop") =>
       /\ line1_words' = SubSeq(words, 1, sdn_index)
       /\ line2_words' = SubSeq(words, sdn_index + 1, Len(words))
  /\ (pc = "loop" /\ pc' = "loop") =>
       /\ line1_words = Append(line1_words', Head(line2_words'))
       /\ Tail(line2_words') = line2_words

C10_Rebalance == [](C10_LoopState) /\ [][C10_LoopStep]_vars

C10_Witness ==
  /\ pc = "font" /\ sdn_index = 3 /\ Len(line1_words) = 1
  /\ Len(line1) <= 30

SpecOverlay == InitOverlay /\ [][NextOverlay]_vars

====
